---- MODULE Spec2Model ----
(***************************************************************************)
(* gitlab-lfs-get.py: download one Git-LFS tracked file from GitLab.       *)
(*                                                                         *)
(* The script is a linear pipeline: configuration loader, argument parser, *)
(* pointer fetch (get_lfs_meta), batch negotiation                         *)
(* (get_lfs_downloand_info), streaming download (dl_target_file), all      *)
(* inside one top-level try/except.  Text is modelled as sequences of      *)
(* one-character strings so that startswith/strip/split are computed as    *)
(* Python computes them.                                                   *)
(***************************************************************************)
EXTENDS Integers, Sequences, FiniteSets, TLC

VARIABLES
    pc,          \* position of the script: "config", "cli", "meta", "batch",
                 \* "download", "streaming", "exited"; "parse"/"parsed" in SpecParse
    osEnviron,   \* names set in the process environment before load_dotenv()
    dotEnv,      \* names set in the .env file
    PROJECT,     \* module globals written by cli()
    REF,
    FILE,
    OUTPUT,
    resp,        \* outcome of the latest HTTP exchange
    pointerBody, \* resp.text of the raw-file endpoint
    oid,         \* top-level oid, size (line 196)
    size,
    href,        \* top-level href, header (line 198)
    header,
    stream,      \* chunks the streaming response delivers, in order
    pos,         \* number of chunks iter_content has yielded so far
    disk,        \* path -> content of the file there (NoFile when absent)
    opened,      \* paths open() has been called on successfully
    calls,       \* stage functions entered, in order
    network,     \* HTTP requests issued, in order
    log,         \* records written through LOG
    batchBody,   \* body of the batch endpoint's answer
    raised,      \* the stage and the exception that ended the run
    exitStatus   \* process exit status (-1 while running)

vars == <<pc, osEnviron, dotEnv, PROJECT, REF, FILE, OUTPUT, resp, pointerBody,
          batchBody, oid, size, href, header, stream, pos, disk, opened, calls,
          network, log, raised, exitStatus>>

----------------------------------------------------------------------------
(* Bounds of the model *)

\* longest pointer body, in lines, fed to the parser in SpecParse
MaxLines == 3
\* most chunks a streaming response delivers
MaxChunks == 2

----------------------------------------------------------------------------
(* Python text primitives *)

NL == "\n"
Whitespace == {" ", "\t", NL, "\r"}
Digits == <<"0", "1", "2", "3", "4", "5", "6", "7", "8", "9">>

Range(s) == {s[i] : i \in DOMAIN s}

Min(S) == CHOOSE m \in S : \A n \in S : m <= n

\* str.startswith(prefix)
StartsWith(s, prefix) ==
    /\ Len(s) >= Len(prefix)
    /\ SubSeq(s, 1, Len(prefix)) = prefix

\* str.strip(): drop leading and trailing whitespace
RECURSIVE LStrip(_)
LStrip(s) ==
    IF s # <<>> /\ s[1] \in Whitespace THEN LStrip(Tail(s)) ELSE s

RECURSIVE RStrip(_)
RStrip(s) ==
    IF s # <<>> /\ s[Len(s)] \in Whitespace
    THEN RStrip(SubSeq(s, 1, Len(s) - 1))
    ELSE s

Strip(s) == RStrip(LStrip(s))

\* str.split(sep) for a one-character separator: every piece, empty ones too
RECURSIVE SplitOn(_, _)
SplitOn(s, sep) ==
    LET hits == {i \in DOMAIN s : s[i] = sep}
    IN  IF hits = {} THEN <<s>>
        ELSE LET i == Min(hits)
             IN  <<SubSeq(s, 1, i - 1)>> \o SplitOn(SubSeq(s, i + 1, Len(s)), sep)

\* str.split(): split on runs of whitespace, no empty pieces
RECURSIVE SplitWs(_)
SplitWs(s) ==
    LET t == LStrip(s)
        ws == {i \in DOMAIN t : t[i] \in Whitespace}
    IN  IF t = <<>> THEN <<>>
        ELSE IF ws = {} THEN <<t>>
        ELSE LET j == Min(ws)
             IN  <<SubSeq(t, 1, j - 1)>> \o SplitWs(SubSeq(t, j, Len(t)))

\* iterating io.StringIO(text): lines, each keeping its trailing newline
RECURSIVE ReadLines(_)
ReadLines(text) ==
    LET nls == {i \in DOMAIN text : text[i] = NL}
    IN  IF text = <<>> THEN <<>>
        ELSE IF nls = {} THEN <<text>>
        ELSE LET i == Min(nls)
             IN  <<SubSeq(text, 1, i)>> \o ReadLines(SubSeq(text, i + 1, Len(text)))

\* str(n) for n >= 0, as characters
RECURSIVE Str(_)
Str(n) ==
    IF n < 10 THEN <<Digits[n + 1]>>
    ELSE Str(n \div 10) \o <<Digits[(n % 10) + 1]>>

IsNumeric(s) == s # <<>> /\ \A i \in DOMAIN s : \E d \in DOMAIN Digits : Digits[d] = s[i]

DigitValue(c) == (CHOOSE d \in DOMAIN Digits : Digits[d] = c) - 1

\* int(s) of a numeric string
RECURSIVE IntOf(_)
IntOf(s) ==
    IF s = <<>> THEN 0
    ELSE 10 * IntOf(SubSeq(s, 1, Len(s) - 1)) + DigitValue(s[Len(s)])

----------------------------------------------------------------------------
(* Exceptions *)

NoExc == [type |-> "", msg |-> <<>>]
Exc(type, msg) == [type |-> type, msg |-> msg]

\* str(ex)
StrOf(ex) == ex.msg

\* How the run ended: the stage an exception came from, and the exception
Ended(stage, ex) == [stage |-> stage, exc |-> ex]
NotRaised == Ended("", NoExc)

----------------------------------------------------------------------------
(* Exception classes: the names imported on lines 12-15 and the classes the *)
(* HTTP library raises.  ConnectionError is not imported from the HTTP      *)
(* library, so on line 101 the name is the builtin one.                     *)

Bases ==
    [c \in {"Exception", "OSError", "builtins.ConnectionError",
            "requests.RequestException", "requests.ConnectionError",
            "requests.Timeout", "requests.ConnectTimeout",
            "requests.ReadTimeout", "requests.HTTPError",
            "requests.ChunkedEncodingError",
            "urllib3.HTTPError", "urllib3.NewConnectionError"} |->
        CASE c = "Exception" -> {}
          [] c = "OSError" -> {"Exception"}
          [] c = "builtins.ConnectionError" -> {"OSError"}
          [] c = "requests.RequestException" -> {"OSError"}
          [] c = "requests.ConnectionError" -> {"requests.RequestException"}
          [] c = "requests.Timeout" -> {"requests.RequestException"}
          [] c = "requests.ConnectTimeout" ->
                 {"requests.ConnectionError", "requests.Timeout"}
          [] c = "requests.ReadTimeout" -> {"requests.Timeout"}
          [] c = "requests.HTTPError" -> {"requests.RequestException"}
          [] c = "requests.ChunkedEncodingError" -> {"requests.RequestException"}
          [] c = "urllib3.HTTPError" -> {"Exception"}
          [] c = "urllib3.NewConnectionError" -> {"urllib3.HTTPError"}]

\* isinstance(ex, target), ex of class c
RECURSIVE IsInstance(_, _)
IsInstance(c, target) ==
    \/ c = target
    \/ c \in DOMAIN Bases /\ \E b \in Bases[c] : IsInstance(b, target)

\* type(ex).__name__
TypeName(c) ==
    CASE c = "requests.ConnectionError" -> "ConnectionError"
      [] c = "builtins.ConnectionError" -> "ConnectionError"
      [] c = "requests.ConnectTimeout" -> "ConnectTimeout"
      [] c = "requests.ReadTimeout" -> "ReadTimeout"
      [] c = "urllib3.NewConnectionError" -> "NewConnectionError"
      [] OTHER -> c

\* Connection-level failures as the HTTP library reports them to its caller:
\* DNS failure / refused / unreachable, connect timeout, read timeout.
ConnectionFailures ==
    {"requests.ConnectionError", "requests.ConnectTimeout"}

TransportFailures == ConnectionFailures \cup {"requests.ReadTimeout"}

\* The classes the except clause on line 101 names
ConnectionFailedClasses ==
    {"urllib3.NewConnectionError", "builtins.ConnectionError"}

----------------------------------------------------------------------------
(* HTTP exchanges *)

NoResp == [kind |-> "none", cls |-> "", status |-> 0, hasLength |-> FALSE,
           length |-> <<>>]
Raised(cls) == [NoResp EXCEPT !.kind = "exc", !.cls = cls]
Answered(status) == [NoResp EXCEPT !.kind = "http", !.status = status]

Statuses == {200, 401, 404, 500}

\* resp.raise_for_status(): the HTTPError of a 4xx/5xx answer, NoExc otherwise
RaiseForStatus(status, url) ==
    IF 400 <= status /\ status < 500
    THEN Exc("requests.HTTPError",
             Str(status) \o <<" Client Error: ", "reason", " for url: ", url>>)
    ELSE IF 500 <= status /\ status < 600
    THEN Exc("requests.HTTPError",
             Str(status) \o <<" Server Error: ", "reason", " for url: ", url>>)
    ELSE NoExc

\* What requests.request(**params) followed by raise_for_status() raises
LibraryRaises(o, url) ==
    IF o.kind = "exc"
    THEN Exc(o.cls, <<"HTTPConnectionPool: ", o.cls>>)
    ELSE RaiseForStatus(o.status, url)

\* A wrapper with the two status ranges exchanged
WrapHTTPErrorSwapped(ex, status) ==
    IF 400 <= status /\ status < 500
    THEN Exc("RuntimeError", <<"Server Error: ">> \o StrOf(ex))
    ELSE IF 500 <= status /\ status < 600
    THEN Exc("RuntimeError", <<"Client Error: ">> \o StrOf(ex))
    ELSE NoExc

\* except HTTPError (lines 104-109): the wrapped error; NoExc when neither
\* range matches and the function falls through, returning None
WrapHTTPError(ex, status) ==
    IF 400 <= status /\ status < 500
    THEN Exc("RuntimeError", <<"Client Error: ">> \o StrOf(ex))
    ELSE IF 500 <= status /\ status < 600
    THEN Exc("RuntimeError", <<"Server Error: ">> \o StrOf(ex))
    ELSE NoExc

\* request(path, method, ...): [exc, none]; exc = NoExc when it returns, none
\* when what it returns is None
request(o, url, method) ==
    IF method \notin {"GET", "POST", "PATCH", "DELETE"}
    THEN [exc |-> Exc("RuntimeError", <<"Unsupport method: ", method>>),
          none |-> FALSE]
    ELSE LET ex == LibraryRaises(o, url)
         IN  IF ex = NoExc THEN [exc |-> NoExc, none |-> FALSE]
             ELSE IF \E c \in ConnectionFailedClasses : IsInstance(ex.type, c)
             THEN [exc |-> Exc("RuntimeError",
                               <<"Connection failed: ", TypeName(ex.type)>>),
                   none |-> FALSE]
             ELSE IF IsInstance(ex.type, "requests.HTTPError")
             THEN [exc |-> WrapHTTPError(ex, o.status),
                   none |-> WrapHTTPError(ex, o.status) = NoExc]
             ELSE [exc |-> Exc("RuntimeError", StrOf(ex)), none |-> FALSE]

----------------------------------------------------------------------------
(* get_lfs_meta: the pointer parser (lines 126-133) *)

OidMarker == <<"o", "i", "d">>
SizeMarker == <<"s", "i", "z", "e">>

Unparsed == [oidBound |-> FALSE, oid |-> <<>>, sizeBound |-> FALSE,
             size |-> <<>>, exc |-> NoExc]

IndexError == Exc("IndexError", <<"list index out of range">>)
UnboundLocalError(name) ==
    Exc("UnboundLocalError",
        <<"local variable '", name, "' referenced before assignment">>)

\* A loop body that keeps the first marker line of each kind
ParseLineFirstWins(st, line) ==
    IF st.exc # NoExc THEN st
    ELSE IF StartsWith(line, OidMarker)
    THEN LET parts == SplitOn(Strip(line), ":")
         IN  IF Len(parts) < 2 THEN [st EXCEPT !.exc = IndexError]
             ELSE IF st.oidBound THEN st
             ELSE [st EXCEPT !.oidBound = TRUE, !.oid = parts[2]]
    ELSE IF StartsWith(line, SizeMarker)
    THEN LET parts == SplitWs(Strip(line))
         IN  IF Len(parts) < 2 THEN [st EXCEPT !.exc = IndexError]
             ELSE IF st.sizeBound THEN st
             ELSE [st EXCEPT !.sizeBound = TRUE, !.size = parts[2]]
    ELSE st

\* one iteration of the for loop (lines 128-131)
ParseLine(st, line) ==
    IF st.exc # NoExc THEN st
    ELSE IF StartsWith(line, OidMarker)
    THEN LET parts == SplitOn(Strip(line), ":")
         IN  IF Len(parts) < 2 THEN [st EXCEPT !.exc = IndexError]
             ELSE [st EXCEPT !.oidBound = TRUE, !.oid = parts[2]]
    ELSE IF StartsWith(line, SizeMarker)
    THEN LET parts == SplitWs(Strip(line))
         IN  IF Len(parts) < 2 THEN [st EXCEPT !.exc = IndexError]
             ELSE [st EXCEPT !.sizeBound = TRUE, !.size = parts[2]]
    ELSE st

RECURSIVE ParseLoop(_, _)
ParseLoop(st, lines) ==
    IF lines = <<>> THEN st
    ELSE ParseLoop(ParseLine(st, Head(lines)), Tail(lines))

\* return oid, size (line 133)
ParseReturn(st) ==
    IF st.exc # NoExc THEN st
    ELSE IF ~st.oidBound THEN [st EXCEPT !.exc = UnboundLocalError("oid")]
    ELSE IF ~st.sizeBound THEN [st EXCEPT !.exc = UnboundLocalError("size")]
    ELSE st

ParsePointer(text) == ParseReturn(ParseLoop(Unparsed, ReadLines(text)))

\* Pointer lines the model feeds the parser
LineChoices ==
    { <<"o", "i", "d", " ", "h", ":", "a", "b">>,
      <<"o", "i", "d", " ", "h", ":", "c", "d">>,
      <<"o", "i", "d", ":", "h", ":", "a", "b">>,
      <<"o", "i", "d", " ", "h", ":", " ", "a", "b", " ">>,
      <<"o", "i", "d">>,
      <<"s", "i", "z", "e", " ", "4", "2">>,
      <<"s", "i", "z", "e", "\t", " ", "7", " ", "9">>,
      <<"s", "i", "z", "e">>,
      <<"v", " ", "1">>,
      <<" ", "o", "i", "d", " ", "h", ":", "e">> }

RECURSIVE JoinLines(_)
JoinLines(ls) ==
    IF ls = <<>> THEN <<>> ELSE Head(ls) \o <<NL>> \o JoinLines(Tail(ls))

\* Pointer bodies of at most n lines
BodiesUpTo(n) ==
    UNION { {JoinLines(ls) : ls \in [1..k -> LineChoices]} : k \in 0..n }

\* Pointer bodies the raw-file endpoint answers with in the pipeline
PipelineLines ==
    { <<"o", "i", "d", " ", "h", ":", "a", "b">>,
      <<"s", "i", "z", "e", " ", "4", "2">>,
      <<"s", "i", "z", "e", " ", "x">>,
      <<"v", " ", "1">> }

PipelineBodies ==
    UNION { {JoinLines(ls) : ls \in [1..k -> PipelineLines]} : k \in 0..2 }

----------------------------------------------------------------------------
(* Configuration loader (lines 28-45) *)

RequiredVars == <<"GIT_HOST", "GIT_TOKEN", "GIT_USER", "GIT_PWD">>

\* os.environ after load_dotenv(): the file never overrides what is set
Environ(os, file) == os \cup file

\* A loader that never looks GIT_PWD up
FirstMissingSkipsPwd(env) ==
    LET miss == {i \in 1..(Len(RequiredVars) - 1) : RequiredVars[i] \notin env}
    IN  IF miss = {} THEN "" ELSE RequiredVars[Min(miss)]

\* The first os.environ[...] lookup that raises KeyError ("" when none does)
FirstMissing(env) ==
    LET miss == {i \in DOMAIN RequiredVars : RequiredVars[i] \notin env}
    IN  IF miss = {} THEN "" ELSE RequiredVars[Min(miss)]

\* str(KeyError(k)) is the repr of the key
KeyError(k) == Exc("KeyError", <<"'", k, "'">>)

ConfigExitStatus == 1

----------------------------------------------------------------------------
(* Logging and the top-level handler (lines 193-205) *)

LogRec(level, msg) == [level |-> level, msg |-> msg]

\* A handler that goes round again: the failed stage is entered once more
AfterFailureRetry(stage) == stage

\* Where control goes once the top-level except clause has logged
AfterFailure(stage) == "exited"

\* The script ends by falling off its last line
ScriptEndStatus == 0

\* parser.parse_args() on a usage error: SystemExit(2), not an Exception
UsageExitStatus == 2

\* except Exception as ex: LOG.error(...), then the end of the script
TopLevelExcept(stage, logNow, ex) ==
    /\ log' = Append(logNow, LogRec("ERROR", <<"Unexpected Error: ">> \o StrOf(ex)))
    /\ raised' = Ended(stage, ex)
    /\ pc' = AfterFailure(stage)
    /\ exitStatus' = IF AfterFailure(stage) = "exited" THEN ScriptEndStatus ELSE -1

----------------------------------------------------------------------------
(* Command line (lines 48-77) and the file system *)

Projects == {"group/name"}
Refs == {"main"}
Files == { <<"a">>, <<"d", "/", "a">>, <<"d", "/">> }
OutputDirArgs == {"", "out", "missing"}

ExistingDirs == {"cwd", "cwd/out"}

\* Path(args.output_dir).resolve(), Path.cwd()
ResolveOutput(arg) ==
    CASE arg = "" -> "cwd"
      [] arg = "out" -> "cwd/out"
      [] OTHER -> "cwd/missing"

\* FILE.rsplit('/')[-1]
Basename(file) ==
    LET parts == SplitOn(file, "/") IN parts[Len(parts)]

\* OUTPUT / Path(name): an empty name is the directory itself
OutputPath(dir, file) == [dir |-> dir, name |-> Basename(file)]

NoFile == [exists |-> FALSE, data |-> <<>>]
FileOf(data) == [exists |-> TRUE, data |-> data]

Paths == [dir : ExistingDirs, name : {Basename(f) : f \in Files} \ {<<>>}]

\* open(output, 'wb'): the error it raises, NoExc when it opens
OpenError(path) ==
    IF path.dir \notin ExistingDirs
    THEN Exc("FileNotFoundError", <<"No such file or directory: ", path.dir>>)
    ELSE IF path.name = <<>>
    THEN Exc("IsADirectoryError", <<"Is a directory: ", path.dir>>)
    ELSE NoExc

\* mode 'ab': an existing file keeps its content
OpenAppend(d, path) ==
    IF d[path].exists THEN d ELSE [d EXCEPT ![path] = FileOf(<<>>)]

\* mode 'wb': the file is created or truncated
OpenWB(d, path) == [d EXCEPT ![path] = FileOf(<<>>)]

\* f.write(chunk)
Write(d, path, chunk) == [d EXCEPT ![path] = FileOf(d[path].data \o chunk)]

----------------------------------------------------------------------------
(* Streaming responses *)

chunk_size == 1024

Chunks == {c \in {<<1>>, <<2, 3>>} : Len(c) <= chunk_size}

Streams == UNION { [1..k -> Chunks] : k \in 0..MaxChunks }

RECURSIVE Flatten(_)
Flatten(chunks) ==
    IF chunks = <<>> THEN <<>> ELSE Head(chunks) \o Flatten(Tail(chunks))

\* num_bars (line 180)
NumBars(length) == IntOf(length) \div chunk_size

\* Content-Length headers a response carrying `s` may have
Lengths(s) ==
    { [hasLength |-> FALSE, length |-> <<>>],
      [hasLength |-> TRUE, length |-> <<"x">>],
      [hasLength |-> TRUE, length |-> Str(Len(Flatten(s)))],
      [hasLength |-> TRUE, length |-> Str(2 * chunk_size)] }

\* r.headers['Content-Length'], int(...): the error raised, NoExc when none
LengthError(r) ==
    IF ~r.hasLength THEN Exc("KeyError", <<"'", "content-length", "'">>)
    ELSE IF ~IsNumeric(r.length)
    THEN Exc("ValueError", <<"invalid literal for int() with base 10: ">> \o r.length)
    ELSE NoExc

----------------------------------------------------------------------------
(* Batch responses (lines 164-168) *)

StorageUrl == "https://storage/x"

Download(h) == [actions |-> [download |-> [href |-> StorageUrl, header |-> h]]]
DownloadNoHeader == [actions |-> [download |-> [href |-> StorageUrl]]]
ObjectError == [error |-> [code |-> 404]]

\* Bodies of a 200 answer of the batch endpoint
BatchBodies ==
    { [isJson |-> FALSE, data |-> [objects |-> <<>>]],
      [isJson |-> TRUE, data |-> [message |-> "x"]],
      [isJson |-> TRUE, data |-> [objects |-> <<>>]],
      [isJson |-> TRUE, data |-> [objects |-> <<Download({})>>]],
      [isJson |-> TRUE, data |-> [objects |-> <<Download({"Authorization"}), ObjectError>>]],
      [isJson |-> TRUE, data |-> [objects |-> <<DownloadNoHeader>>]],
      [isJson |-> TRUE, data |-> [objects |-> <<ObjectError>>]] }

NoBatchBody == [isJson |-> FALSE, data |-> [objects |-> <<>>]]

\* resp.json(), data['objects'][0], obj['actions']['download'][...]
BatchExtract(body) ==
    LET fail(ex) == [exc |-> ex, href |-> "None", header |-> {}]
    IN  IF ~body.isJson
        THEN fail(Exc("JSONDecodeError", <<"Expecting value">>))
        ELSE IF "objects" \notin DOMAIN body.data THEN fail(KeyError("objects"))
        ELSE IF Len(body.data.objects) = 0 THEN fail(IndexError)
        ELSE LET obj == body.data.objects[1]
             IN  IF "actions" \notin DOMAIN obj THEN fail(KeyError("actions"))
                 ELSE IF "download" \notin DOMAIN obj.actions
                 THEN fail(KeyError("download"))
                 ELSE IF "href" \notin DOMAIN obj.actions.download
                 THEN fail(KeyError("href"))
                 ELSE IF "header" \notin DOMAIN obj.actions.download
                 THEN fail(KeyError("header"))
                 ELSE [exc |-> NoExc,
                       href |-> obj.actions.download.href,
                       header |-> obj.actions.download.header]

----------------------------------------------------------------------------
(* Requests on the wire *)

RawUrl == "http://GIT_HOST/api/v4/projects/PROJECT/repository/files/FILE/raw?ref=REF"
BatchUrl == "http://GIT_HOST/PROJECT.git/info/lfs/objects/batch"

NoData == [oid |-> <<>>, size |-> 0]

Req(method, url, auth, data, answer) ==
    [method |-> method, url |-> url, auth |-> auth, data |-> data, answer |-> answer]

\* What the server or the HTTP library does with one request
Exchanges == {Raised(c) : c \in TransportFailures} \cup {Answered(st) : st \in Statuses}

----------------------------------------------------------------------------
(* The script *)

Init ==
    /\ pc = "config"
    /\ osEnviron \in SUBSET Range(RequiredVars)
    /\ dotEnv \in {{}, {"GIT_TOKEN"}}
    /\ PROJECT = "None"
    /\ REF = "None"
    /\ FILE = <<>>
    /\ OUTPUT = "None"
    /\ resp = NoResp
    /\ pointerBody = <<>>
    /\ batchBody = NoBatchBody
    /\ oid = <<>>
    /\ size = <<>>
    /\ href = "None"
    /\ header = {}
    /\ stream = <<>>
    /\ pos = 0
    /\ \E old \in {NoFile, FileOf(<<9, 9, 9, 9>>)} : disk = [p \in Paths |-> old]
    /\ opened = {}
    /\ calls = <<>>
    /\ network = <<>>
    /\ log = <<>>
    /\ raised = NotRaised
    /\ exitStatus = -1

\* lines 28-45
LoadConfig ==
    /\ pc = "config"
    /\ LET missing == FirstMissing(Environ(osEnviron, dotEnv))
       IN  \/ /\ missing # ""
              /\ log' = Append(log, LogRec("ERROR",
                     <<"Please setup required env variable: ">> \o StrOf(KeyError(missing))))
              /\ raised' = Ended("config", KeyError(missing))
              /\ exitStatus' = ConfigExitStatus
              /\ pc' = "exited"
           \/ /\ missing = ""
              /\ \E encodable \in BOOLEAN :
                    IF encodable
                    THEN /\ pc' = "cli"
                         /\ UNCHANGED <<log, raised, exitStatus>>
                    ELSE /\ log' = Append(log, LogRec("ERROR",
                                <<"Unexpected: ", "'utf-8' codec can't encode">>))
                         /\ raised' = Ended("config",
                                Exc("UnicodeEncodeError", <<"'utf-8' codec can't encode">>))
                         /\ exitStatus' = ConfigExitStatus
                         /\ pc' = "exited"
    /\ UNCHANGED <<osEnviron, dotEnv, PROJECT, REF, FILE, OUTPUT, resp, pointerBody,
                   batchBody, oid, size, href, header, stream, pos, disk, opened, calls, network>>

\* cli() (lines 48-77), called on line 194
Cli ==
    /\ pc = "cli"
    /\ \/ /\ raised' = Ended("cli", Exc("SystemExit", <<"2">>))
          /\ exitStatus' = UsageExitStatus
          /\ pc' = "exited"
          /\ UNCHANGED <<PROJECT, REF, FILE, OUTPUT>>
       \/ /\ \E p \in Projects, r \in Refs, f \in Files, o \in OutputDirArgs :
                /\ PROJECT' = p
                /\ REF' = r
                /\ FILE' = f
                /\ OUTPUT' = ResolveOutput(o)
          /\ pc' = "meta"
          /\ UNCHANGED <<raised, exitStatus>>
    /\ UNCHANGED <<osEnviron, dotEnv, resp, pointerBody, batchBody, oid, size, href, header,
                   stream, pos, disk, opened, calls, network, log>>

\* get_lfs_meta() (lines 115-133), called on line 196
GetLfsMeta ==
    /\ pc = "meta"
    /\ calls' = Append(calls, "get_lfs_meta")
    /\ \E o \in Exchanges :
       \E body \in IF o.kind = "http" /\ o.status = 200 THEN PipelineBodies ELSE {<<>>} :
          LET logNow == Append(log, LogRec("INFO", <<"Get LFS meta-data">>))
              r == request(o, RawUrl, "GET")
              st == ParsePointer(body)
          IN  /\ network' = Append(network, Req("GET", RawUrl, "PRIVATE-TOKEN", NoData, o))
              /\ resp' = o
              /\ pointerBody' = body
              /\ IF r.exc # NoExc
                 THEN /\ TopLevelExcept("meta", logNow, r.exc)
                      /\ UNCHANGED <<oid, size>>
                 ELSE IF r.none
                 THEN /\ TopLevelExcept("meta", logNow, Exc("AttributeError",
                            <<"'NoneType' object has no attribute 'text'">>))
                      /\ UNCHANGED <<oid, size>>
                 ELSE IF st.exc # NoExc
                 THEN /\ TopLevelExcept("meta", logNow, st.exc)
                      /\ UNCHANGED <<oid, size>>
                 ELSE /\ oid' = st.oid
                      /\ size' = st.size
                      /\ log' = logNow
                      /\ pc' = "batch"
                      /\ UNCHANGED <<raised, exitStatus>>
    /\ UNCHANGED <<osEnviron, dotEnv, PROJECT, REF, FILE, OUTPUT, batchBody, href,
                   header, stream, pos, disk, opened>>

\* get_lfs_downloand_info(oid, size) (lines 136-170), called on line 198
GetLfsDownloadInfo ==
    /\ pc = "batch"
    /\ calls' = Append(calls, "get_lfs_downloand_info")
    /\ LET logNow == Append(log, LogRec("INFO", <<"Get download info">>))
       IN  IF ~IsNumeric(size)
           THEN \* int(size) on line 144
                /\ TopLevelExcept("batch", logNow, Exc("ValueError",
                      <<"invalid literal for int() with base 10: ">> \o size))
                /\ UNCHANGED <<network, resp, batchBody, href, header>>
           ELSE /\ \E o \in Exchanges :
                   \E body \in IF o.kind = "http" /\ o.status = 200
                               THEN BatchBodies ELSE {NoBatchBody} :
                      LET r == request(o, BatchUrl, "POST")
                          x == BatchExtract(body)
                      IN  /\ network' = Append(network, Req("POST", BatchUrl, "Basic",
                                              [oid |-> oid, size |-> IntOf(size)], o))
                          /\ resp' = o
                          /\ batchBody' = body
                          /\ IF r.exc # NoExc
                             THEN /\ TopLevelExcept("batch", logNow, r.exc)
                                  /\ UNCHANGED <<href, header>>
                             ELSE IF r.none
                             THEN /\ TopLevelExcept("batch", logNow, Exc("AttributeError",
                                        <<"'NoneType' object has no attribute 'json'">>))
                                  /\ UNCHANGED <<href, header>>
                             ELSE IF x.exc # NoExc
                             THEN /\ TopLevelExcept("batch", logNow, x.exc)
                                  /\ UNCHANGED <<href, header>>
                             ELSE /\ href' = x.href
                                  /\ header' = x.header
                                  /\ log' = logNow
                                  /\ pc' = "download"
                                  /\ UNCHANGED <<raised, exitStatus>>
    /\ UNCHANGED <<osEnviron, dotEnv, PROJECT, REF, FILE, OUTPUT, pointerBody, oid,
                   size, stream, pos, disk, opened>>

\* What requests.get(url, stream=True) meets: a transport failure, a status,
\* and for a 200 the Content-Length header and the chunks of the body
Downloads ==
    {[o |-> Raised(c), s |-> <<>>] : c \in TransportFailures}
    \cup {[o |-> Answered(st), s |-> <<>>] : st \in Statuses \ {200}}
    \cup UNION { {[o |-> [Answered(200) EXCEPT !.hasLength = l.hasLength,
                                               !.length = l.length],
                   s |-> s] : l \in Lengths(s)} : s \in Streams }

\* line 200 and dl_target_file(url, header, output) up to open() (lines 173-182)
DlOpen ==
    /\ pc = "download"
    /\ calls' = Append(calls, "dl_target_file")
    /\ \E d \in Downloads :
          LET output == OutputPath(OUTPUT, FILE)
              logNow == Append(log, LogRec("INFO", <<"Download file: ", href>>))
              ex == LibraryRaises(d.o, href)
          IN  /\ network' = Append(network, Req("GET", href, header, NoData, d.o))
              /\ resp' = d.o
              /\ stream' = d.s
              /\ IF ex # NoExc
                 THEN /\ TopLevelExcept("download", logNow, ex)
                      /\ UNCHANGED <<disk, opened>>
                 ELSE IF LengthError(d.o) # NoExc
                 THEN /\ TopLevelExcept("download", logNow, LengthError(d.o))
                      /\ UNCHANGED <<disk, opened>>
                 ELSE IF OpenError(output) # NoExc
                 THEN /\ TopLevelExcept("download", logNow, OpenError(output))
                      /\ UNCHANGED <<disk, opened>>
                 ELSE /\ disk' = OpenWB(disk, output)
                      /\ opened' = opened \cup {output}
                      /\ log' = logNow
                      /\ pc' = "streaming"
                      /\ UNCHANGED <<raised, exitStatus>>
    /\ UNCHANGED <<osEnviron, dotEnv, PROJECT, REF, FILE, OUTPUT, pointerBody,
                   batchBody, oid, size, href, header, pos>>

\* one iteration of the loop on lines 183-190
DlChunk ==
    /\ pc = "streaming"
    /\ pos < Len(stream)
    /\ disk' = Write(disk, OutputPath(OUTPUT, FILE), stream[pos + 1])
    /\ pos' = pos + 1
    /\ UNCHANGED <<pc, osEnviron, dotEnv, PROJECT, REF, FILE, OUTPUT, resp,
                   pointerBody, batchBody, oid, size, href, header, stream, opened, calls,
                   network, log, raised, exitStatus>>

\* end of stream: both with-blocks close, the script ends
DlEnd ==
    /\ pc = "streaming"
    /\ pos = Len(stream)
    /\ pc' = "exited"
    /\ exitStatus' = ScriptEndStatus
    /\ UNCHANGED <<osEnviron, dotEnv, PROJECT, REF, FILE, OUTPUT, resp, pointerBody,
                   batchBody, oid, size, href, header, stream, pos, disk, opened, calls,
                   network, log, raised>>

\* iter_content() or f.write() raises inside the loop
DlStreamError ==
    /\ pc = "streaming"
    /\ \E ex \in { Exc("requests.ChunkedEncodingError", <<"Connection broken">>),
                   Exc("OSError", <<"No space left on device">>) } :
          TopLevelExcept("streaming", log, ex)
    /\ UNCHANGED <<osEnviron, dotEnv, PROJECT, REF, FILE, OUTPUT, resp, pointerBody,
                   batchBody, oid, size, href, header, stream, pos, disk, opened, calls,
                   network>>

Next ==
    \/ LoadConfig
    \/ Cli
    \/ GetLfsMeta
    \/ GetLfsDownloadInfo
    \/ DlOpen
    \/ DlChunk
    \/ DlEnd
    \/ DlStreamError

Spec == Init /\ [][Next]_vars

----------------------------------------------------------------------------
(* The pointer parser on its own *)

InitParse ==
    /\ pc = "parse"
    /\ pointerBody \in BodiesUpTo(MaxLines)
    /\ osEnviron = Range(RequiredVars)
    /\ dotEnv = {}
    /\ PROJECT = "group/name"
    /\ REF = "main"
    /\ FILE = <<"a">>
    /\ OUTPUT = "cwd"
    /\ resp = Answered(200)
    /\ batchBody = NoBatchBody
    /\ oid = <<>>
    /\ size = <<>>
    /\ href = "None"
    /\ header = {}
    /\ stream = <<>>
    /\ pos = 0
    /\ disk = [p \in Paths |-> NoFile]
    /\ opened = {}
    /\ calls = <<"get_lfs_meta">>
    /\ network = <<Req("GET", RawUrl, "PRIVATE-TOKEN", NoData, Answered(200))>>
    /\ log = <<LogRec("INFO", <<"Get LFS meta-data">>)>>
    /\ raised = NotRaised
    /\ exitStatus = -1

\* lines 126-133 applied to resp.text
ParseBody ==
    /\ pc = "parse"
    /\ LET st == ParsePointer(pointerBody)
       IN  /\ raised' = Ended(IF st.exc = NoExc THEN "" ELSE "meta", st.exc)
           /\ oid' = IF st.exc = NoExc THEN st.oid ELSE <<>>
           /\ size' = IF st.exc = NoExc THEN st.size ELSE <<>>
    /\ pc' = "parsed"
    /\ UNCHANGED <<osEnviron, dotEnv, PROJECT, REF, FILE, OUTPUT, resp, pointerBody,
                   batchBody, href, header, stream, pos, disk, opened, calls, network, log,
                   exitStatus>>

NextParse == ParseBody

SpecParse == InitParse /\ [][NextParse]_vars

----------------------------------------------------------------------------
(* Vocabulary of the properties *)

StageOrder == <<"get_lfs_meta", "get_lfs_downloand_info", "dl_target_file">>
WireOrder == <<RawUrl, BatchUrl, StorageUrl>>

IsPrefix(a, b) == Len(a) <= Len(b) /\ a = SubSeq(b, 1, Len(a))

Urls == [i \in DOMAIN network |-> network[i].url]

\* A pipeline stage raised into the top-level handler
StageFailed == raised.stage \in {"meta", "batch", "download", "streaming"}

\* s occurs in msg as a run of consecutive elements
Contains(msg, s) ==
    \E i \in 0..(Len(msg) - Len(s)) : SubSeq(msg, i + 1, i + Len(s)) = s

LastLog == log[Len(log)]

AllRequired == {"GIT_HOST", "GIT_TOKEN", "GIT_USER", "GIT_PWD"}

\* The destination: the output directory and what follows the last "/" of FILE
Destination ==
    LET slashes == {i \in DOMAIN FILE : FILE[i] = "/"}
        from == IF slashes = {} THEN 1
                ELSE (CHOOSE i \in slashes : \A j \in slashes : j <= i) + 1
    IN  [dir |-> OUTPUT, name |-> SubSeq(FILE, from, Len(FILE))]

----------------------------------------------------------------------------
(* C1 *)

\* C1 (as stated): the stages run only in the order get_lfs_meta,
\* get_lfs_downloand_info, dl_target_file, each at most once; once a stage has
\* failed the run is over, no later stage's request is on the wire, and the
\* destination file has never been opened.
C1_AsStated ==
    /\ IsPrefix(calls, StageOrder)
    /\ IsPrefix(Urls, WireOrder)
    /\ StageFailed =>
          /\ pc = "exited"
          /\ Len(network) <= Len(calls)
          /\ opened = {}

\* C1 (amended): as above, except that the destination file has never been
\* opened only when the failure came before the write loop; a failure inside
\* the loop leaves the file opened.
C1_StageOrder ==
    /\ IsPrefix(calls, StageOrder)
    /\ IsPrefix(Urls, WireOrder)
    /\ StageFailed =>
          /\ pc = "exited"
          /\ Len(network) <= Len(calls)
          /\ raised.stage # "streaming" => opened = {}
          /\ raised.stage = "streaming" => opened = {Destination}

\* the batch negotiation failed after a successful pointer fetch
C1_Witness ==
    /\ pc = "exited"
    /\ raised.stage = "batch"
    /\ calls = SubSeq(StageOrder, 1, 2)
    /\ Len(network) = 2

----------------------------------------------------------------------------
(* C2 *)

\* C2: once the configuration loader has run with one of GIT_HOST, GIT_TOKEN,
\* GIT_USER, GIT_PWD absent from the environment (.env included), the process
\* has exited with status 1, the one record logged is an error naming an absent
\* variable, the arguments were never parsed and no request was issued.
C2_MissingConfig ==
    (pc # "config" /\ AllRequired \ (osEnviron \cup dotEnv) # {}) =>
        /\ pc = "exited"
        /\ exitStatus = 1
        /\ Len(log) = 1
        /\ log[1].level = "ERROR"
        /\ \E v \in AllRequired \ (osEnviron \cup dotEnv) : Contains(log[1].msg, <<v>>)
        /\ network = <<>>
        /\ calls = <<>>
        /\ PROJECT = "None" /\ FILE = <<>> /\ OUTPUT = "None"

\* GIT_TOKEN alone is absent and the loader has run
C2_Witness ==
    /\ pc = "exited"
    /\ osEnviron \cup dotEnv = AllRequired \ {"GIT_TOKEN"}
    /\ Contains(log[1].msg, <<"GIT_TOKEN">>)

----------------------------------------------------------------------------
(* C3 *)

\* C3: when the raw-file endpoint answered the pointer fetch with 404, the run
\* has ended with the logged error a client error containing 404, and the
\* pointer GET is the only request ever issued.
C3_PointerNotFound ==
    (network # <<>> /\ network[1].answer = Answered(404)) =>
        /\ pc = "exited"
        /\ Len(network) = 1
        /\ calls = <<"get_lfs_meta">>
        /\ LastLog.level = "ERROR"
        /\ Contains(LastLog.msg, <<"Client Error: ">>)
        /\ Contains(LastLog.msg, <<"4", "0", "4">>)

\* the pointer fetch was answered 404
C3_Witness ==
    /\ pc = "exited"
    /\ Len(network) = 1
    /\ network[1].url = RawUrl
    /\ network[1].answer.kind = "http"
    /\ network[1].answer.status = 404

----------------------------------------------------------------------------
(* C4 *)

\* C4: at exit the status is 0 when the download succeeded, 1 when the
\* configuration is missing, and non-zero when a pipeline stage failed.
C4_ExitStatus ==
    pc = "exited" =>
        /\ (raised = NotRaised /\ calls = StageOrder) => exitStatus = 0
        /\ AllRequired \ (osEnviron \cup dotEnv) # {} => exitStatus = 1
        /\ StageFailed => (exitStatus # 0 /\ LastLog.level = "ERROR")

----------------------------------------------------------------------------
(* C5, C6 *)

IsOidLine(line) == StartsWith(line, OidMarker)
IsSizeLine(line) == StartsWith(line, SizeMarker)

OidLines(text) == SelectSeq(ReadLines(text), IsOidLine)
SizeLines(text) == SelectSeq(ReadLines(text), IsSizeLine)

\* The pointer fetch was answered 200 and get_lfs_meta has run
PointerAnswered ==
    /\ network # <<>>
    /\ network[1].answer = Answered(200)

\* C5: when the pointer body has no line starting with "oid" or none starting
\* with "size", get_lfs_meta has raised a descriptive (runtime-style) error,
\* not an unbound-variable one, and no batch or download request followed.
C5_MalformedPointer ==
    (PointerAnswered /\ (OidLines(pointerBody) = <<>> \/ SizeLines(pointerBody) = <<>>)) =>
        /\ pc = "exited"
        /\ raised.stage = "meta"
        /\ raised.exc.type = "RuntimeError"
        /\ Len(network) = 1

\* The batch endpoint answered 200 with a JSON body and the negotiator has run
BatchAnswered ==
    /\ Len(network) >= 2
    /\ network[2].answer = Answered(200)
    /\ batchBody.isJson

\* C6: when the batch endpoint answered with an empty objects list,
\* get_lfs_downloand_info has raised a descriptive (runtime-style) error, not
\* an index-out-of-range one, and the streaming download was never attempted.
C6_EmptyObjects ==
    (BatchAnswered /\ "objects" \in DOMAIN batchBody.data
                   /\ batchBody.data.objects = <<>>) =>
        /\ pc = "exited"
        /\ raised.stage = "batch"
        /\ raised.exc.type = "RuntimeError"
        /\ Len(network) = 2

----------------------------------------------------------------------------
(* C7, under SpecParse *)

\* What follows the first colon of a line ("" when it has none)
AfterFirstColon(line) ==
    LET cs == {i \in DOMAIN line : line[i] = ":"}
    IN  IF cs = {} THEN <<>> ELSE SubSeq(line, Min(cs) + 1, Len(line))

\* What lies between the first colon of a line and its second colon or end
BetweenColons(line) ==
    LET rest == AfterFirstColon(line)
        cs == {i \in DOMAIN rest : rest[i] = ":"}
    IN  IF cs = {} THEN rest ELSE SubSeq(rest, 1, Min(cs) - 1)

HasColon(line) == \E i \in DOMAIN line : line[i] = ":"

\* The whitespace-separated tokens of a line, by position
TokenStarts(line) ==
    {i \in DOMAIN line : line[i] \notin Whitespace
                         /\ (i = 1 \/ line[i - 1] \in Whitespace)}

\* The second whitespace-separated token of a line ("" when it has none)
SecondToken(line) ==
    LET starts == TokenStarts(line)
    IN  IF Cardinality(starts) < 2 THEN <<>>
        ELSE LET b == Min(starts \ {Min(starts)})
                 ends == {j \in b..Len(line) :
                             j = Len(line) \/ line[j + 1] \in Whitespace}
             IN  SubSeq(line, b, Min(ends))

\* C7 (as stated): for a body with a line starting "oid" and one starting
\* "size", get_lfs_meta returns the whole trimmed text after the first colon of
\* the FIRST "oid" line and the second token of the FIRST "size" line.
C7_AsStated ==
    (pc = "parsed" /\ OidLines(pointerBody) # <<>> /\ SizeLines(pointerBody) # <<>>) =>
        /\ raised = NotRaised
        /\ oid = Strip(AfterFirstColon(OidLines(pointerBody)[1]))
        /\ size = SecondToken(SizeLines(pointerBody)[1])

\* C7 (amended): for such a body, if every "oid" line has a colon and every
\* "size" line a second token, get_lfs_meta returns the text between the first
\* and the second colon (or the end) of the stripped LAST "oid" line, itself
\* untrimmed, and the second token of the LAST "size" line; otherwise it raises
\* IndexError.
C7_LastMarkerWins ==
    (pc = "parsed" /\ OidLines(pointerBody) # <<>> /\ SizeLines(pointerBody) # <<>>) =>
        LET os == OidLines(pointerBody)
            ss == SizeLines(pointerBody)
        IN  IF /\ \A i \in DOMAIN os : HasColon(os[i])
               /\ \A i \in DOMAIN ss : SecondToken(ss[i]) # <<>>
            THEN /\ raised = NotRaised
                 /\ oid = BetweenColons(Strip(os[Len(os)]))
                 /\ size = SecondToken(ss[Len(ss)])
            ELSE raised = Ended("meta", IndexError)

\* two "oid" lines with different ids: the parse returned the id of the last
C7_Witness ==
    /\ pc = "parsed"
    /\ raised = NotRaised
    /\ Len(OidLines(pointerBody)) = 2
    /\ SizeLines(pointerBody) # <<>>
    /\ oid # BetweenColons(Strip(OidLines(pointerBody)[1]))

----------------------------------------------------------------------------
(* C8 *)

\* C8: after a run in which all three stages succeeded, the file at
\* <output dir>/<base name of FILE> holds exactly the bytes the streaming
\* response delivered, in order, whatever it held before.
C8_OutputBytes ==
    (pc = "exited" /\ raised = NotRaised /\ calls = StageOrder) =>
        /\ Destination \in DOMAIN disk
        /\ disk[Destination] = FileOf(Flatten(stream))
        /\ opened = {Destination}
        /\ \A p \in DOMAIN disk \ {Destination} :
              disk[p] \in {NoFile, FileOf(<<9, 9, 9, 9>>)}

\* a successful run of two chunks over a destination that held other bytes
C8_Witness ==
    /\ pc = "exited" /\ raised = NotRaised /\ calls = StageOrder
    /\ Len(stream) = 2
    /\ disk[Destination].data = Flatten(stream)
    /\ \E p \in DOMAIN disk : disk[p] = FileOf(<<9, 9, 9, 9>>)

----------------------------------------------------------------------------
(* C9 *)

\* C9: whenever the HTTP library reported a connection-level failure inside
\* request(), the error that ended the run is "Connection failed" with the
\* failure's type name, not the generic wrapper.
C9_ConnectionFailed ==
    \A i \in DOMAIN network :
        (/\ network[i].url \in {RawUrl, BatchUrl}
         /\ network[i].answer.kind = "exc"
         /\ network[i].answer.cls \in ConnectionFailures) =>
            /\ raised.exc.type = "RuntimeError"
            /\ raised.exc.msg = <<"Connection failed: ", TypeName(network[i].answer.cls)>>

----------------------------------------------------------------------------
(* C10 *)

\* C10: when the streaming GET was answered with a success status and nothing
\* failed while streaming, the run ends with the destination opened and holding
\* every chunk, whether Content-Length is missing, non-numeric or inaccurate.
C10_LengthIndependent ==
    (/\ pc = "exited"
     /\ Len(network) = 3
     /\ network[3].answer.kind = "http"
     /\ network[3].answer.status = 200
     /\ Destination \in DOMAIN disk
     /\ raised.stage # "streaming") =>
        /\ raised = NotRaised
        /\ opened = {Destination}
        /\ disk[Destination] = FileOf(Flatten(stream))

====
